---- MODULE Spec2Model ----
(***************************************************************************)
(* State-machine model of node-slack-logger (src/lib/index.js,             *)
(* src/lib/formats.js, constants of src/unnamed/part_000).                 *)
(*                                                                         *)
(* JavaScript values are records [t, n, s]: t is the typeof-class, n the   *)
(* number when t = "number", s the string when t = "string" and the        *)
(* identity of a function or object otherwise.  Config objects and log     *)
(* input objects carry their properties as further record fields.          *)
(***************************************************************************)
EXTENDS Integers, Sequences, FiniteSets, TLC

VARIABLES
    loggers,   \* _loggers' own properties: property key -> Logger instance
    objs,      \* the Logger instances: instance -> its _send, _format, ...
    held,      \* the Loggers the program holds: property key -> the instance
               \* getLogger first returned for it
    pending,   \* promises returned by send that have not settled yet
    last       \* the call just made, what it invoked and how it ended

vars == <<loggers, objs, held, pending, last>>

---------------------------------------------------------------------------
(* JavaScript values                                                       *)

Undef == [t |-> "undefined", n |-> 0, s |-> ""]
Null == [t |-> "null", n |-> 0, s |-> ""]
Num(k) == [t |-> "number", n |-> k, s |-> ""]
Str(x) == [t |-> "string", n |-> 0, s |-> x]
Fn(x) == [t |-> "function", n |-> 0, s |-> x]
Obj(x) == [t |-> "object", n |-> 0, s |-> x]

\* typeof v
TypeOf(v) == IF v.t = "null" THEN "object" ELSE v.t

\* ToBoolean(v)
Truthy(v) ==
    CASE v.t = "undefined" -> FALSE
      [] v.t = "null" -> FALSE
      [] v.t = "number" -> v.n # 0
      [] v.t = "string" -> v.s # ""
      [] OTHER -> TRUE

\* a || b
OrElse(a, b) == IF Truthy(a) THEN a ELSE b

\* Number.prototype.toString for the numbers the model passes around
DecStr == [k \in 0..9 |->
    CASE k = 0 -> "0" [] k = 1 -> "1" [] k = 2 -> "2" [] k = 3 -> "3"
      [] k = 4 -> "4" [] k = 5 -> "5" [] k = 6 -> "6" [] k = 7 -> "7"
      [] k = 8 -> "8" [] k = 9 -> "9"]

\* ToPropertyKey(v): the key the `in` operator and v-indexed lookups use
PropKey(v) ==
    CASE v.t = "string" -> v.s
      [] v.t = "number" -> DecStr[v.n]
      [] v.t = "undefined" -> "undefined"
      [] v.t = "null" -> "null"
      [] v.t = "function" -> "function () { [native code] }"
      [] OTHER -> "[object Object]"

\* Property names every plain object inherits from Object.prototype
ObjectProtoKeys ==
    {"constructor", "__proto__", "hasOwnProperty", "isPrototypeOf",
     "propertyIsEnumerable", "toLocaleString", "toString", "valueOf",
     "__defineGetter__", "__defineSetter__", "__lookupGetter__",
     "__lookupSetter__"}

\* obj[k] for an inherited name k: the prototype object itself for
\* __proto__, a built-in method otherwise
ObjectProtoGet(k) ==
    IF k = "__proto__" THEN Obj("Object.prototype")
    ELSE Fn("Object.prototype." \o k)

\* `v in table`, table a plain object given by its own properties
In(v, table) == PropKey(v) \in (DOMAIN table) \cup ObjectProtoKeys

\* table[v], table a plain object given by its own properties
Get(table, v) ==
    IF PropKey(v) \in DOMAIN table THEN table[PropKey(v)]
    ELSE IF PropKey(v) \in ObjectProtoKeys THEN ObjectProtoGet(PropKey(v))
    ELSE Undef

\* ToNumber(v) for the operands of a relational comparison; NaN is
\* [nan |-> TRUE]
ToNumber(v) ==
    CASE v.t = "number" -> [nan |-> FALSE, n |-> v.n]
      [] v.t = "string" /\ \E k \in 0..9 : DecStr[k] = v.s ->
            [nan |-> FALSE, n |-> CHOOSE k \in 0..9 : DecStr[k] = v.s]
      [] v.t = "string" /\ v.s = "" -> [nan |-> FALSE, n |-> 0]
      [] v.t = "null" -> [nan |-> FALSE, n |-> 0]
      [] OTHER -> [nan |-> TRUE, n |-> 0]

\* a < b.  Two strings compare by code units, which is decided here for
\* equal strings and for a decimal digit string against a string starting
\* with a letter; any other pair of operands compares as numbers, and a
\* comparison with NaN is false.
Less(a, b) ==
    IF a.t = "string" /\ b.t = "string"
    THEN a.s # b.s /\ (\E k \in 0..9 : DecStr[k] = a.s)
         /\ ~(\E k \in 0..9 : DecStr[k] = b.s)
    ELSE /\ ~ToNumber(a).nan
         /\ ~ToNumber(b).nan
         /\ ToNumber(a).n < ToNumber(b).n

---------------------------------------------------------------------------
(* constants.js, formats.js tables                                         *)

DEBUG == 1
INFO == 2
WARNING == 3
ERROR == 4
CRITICAL == 5

logLevels ==
    [k \in {"DEBUG", "INFO", "WARNING", "ERROR", "CRITICAL"} |->
        CASE k = "DEBUG" -> Num(DEBUG) [] k = "INFO" -> Num(INFO)
          [] k = "WARNING" -> Num(WARNING) [] k = "ERROR" -> Num(ERROR)
          [] k = "CRITICAL" -> Num(CRITICAL)]

logLevelNames ==
    [k \in {DecStr[DEBUG], DecStr[INFO], DecStr[WARNING], DecStr[ERROR],
            DecStr[CRITICAL]} |->
        CASE k = DecStr[DEBUG] -> Str("DEBUG") [] k = DecStr[INFO] -> Str("INFO")
          [] k = DecStr[WARNING] -> Str("WARNING")
          [] k = DecStr[ERROR] -> Str("ERROR")
          [] k = DecStr[CRITICAL] -> Str("CRITICAL")]

defaultColors ==
    [k \in DOMAIN logLevelNames |->
        CASE k = DecStr[DEBUG] -> Str("#eee") [] k = DecStr[INFO] -> Str("#0f0")
          [] k = DecStr[WARNING] -> Str("#ff0")
          [] OTHER -> Str("#f00")]

SLACK == 1

logFormats == [k \in {"SLACK"} |-> Num(SLACK)]

logFormatNames == [k \in {DecStr[SLACK]} |-> Str("SLACK")]

defaultFormats == [k \in {DecStr[SLACK]} |-> Fn("_slackFormatter")]

\* What a throwing helper yields
Thrown == [t |-> "throw", n |-> 0, s |-> ""]

\* _getLevel: string or number -> number
getLevel(level) ==
    IF In(level, logLevelNames) THEN level
    ELSE IF In(level, logLevels) THEN Get(logLevels, level)
    ELSE Thrown

\* _getFormat: string, number or function -> function
getFormat(format) ==
    IF In(format, logFormatNames) THEN Get(defaultFormats, format)
    ELSE IF In(format, logFormats) THEN Get(defaultFormats, Get(logFormats, format))
    ELSE IF TypeOf(format) = "function" THEN format
    ELSE Thrown

---------------------------------------------------------------------------
(* Stack traces and _getTrailFromErrorStack                                *)

\* A stack text is a sequence of lines; m says whether _errorTrailRE
\* matches the line, and scope, file, line, column are its captures.
Frame(scope, file, line, column) ==
    [m |-> TRUE, scope |-> scope, file |-> file, line |-> line, column |-> column]

NoFrame == [m |-> FALSE, scope |-> Undef, file |-> "", line |-> 0, column |-> 0]

\* __filename of lib/index.js
Filename == "/app/node_modules/node-slack-logger/lib/index.js"

\* require.main.path
MainPath == "/app"

\* path.relative(require.main.path, file) for the files of the model
Relative(file) ==
    CASE file = Filename -> "node_modules/node-slack-logger/lib/index.js"
      [] file = "/app/job.js" -> "job.js"
      [] file = "/app/db/query.js" -> "db/query.js"
      [] OTHER -> file

EmptyTrail == [empty |-> TRUE, scope |-> Undef, file |-> "", line |-> 0, column |-> 0]

\* Skips with the frames of the module itself never passed over
SkipsNever(frame, excludeCurrentModule) == FALSE

\* if (excludeCurrentModule && file === __filename) continue
Skips(frame, excludeCurrentModule) ==
    excludeCurrentModule /\ frame.file = Filename

RECURSIVE TrailFrom(_, _, _)
\* the loop of _getTrailFromErrorStack from line i on
TrailFrom(stack, i, excludeCurrentModule) ==
    IF i > Len(stack) THEN EmptyTrail
    ELSE IF ~stack[i].m THEN TrailFrom(stack, i + 1, excludeCurrentModule)
    ELSE IF Skips(stack[i], excludeCurrentModule)
         THEN TrailFrom(stack, i + 1, excludeCurrentModule)
    ELSE [empty |-> FALSE, scope |-> stack[i].scope,
          file |-> Relative(stack[i].file),
          line |-> stack[i].line, column |-> stack[i].column]

getTrailFromErrorStack(stack, excludeCurrentModule) ==
    TrailFrom(stack, 1, excludeCurrentModule)

\* The texts the stack strings of the model stand for: an error raised in
\* the program, the error log itself throws when the formatter fails, and
\* a text no line of which is a frame
StackText(name) ==
    CASE name = "stackDb" ->
            <<NoFrame, Frame(Str("runQuery"), "/app/db/query.js", 40, 11),
              Frame(Str("main"), "/app/job.js", 7, 3)>>
      [] name = "stackLib" ->
            <<NoFrame, Frame(Str("Logger.log"), Filename, 220, 13),
              Frame(Str("main"), "/app/job.js", 20, 5)>>
      [] name = "stackNoFrame" -> <<NoFrame>>
      [] OTHER -> <<NoFrame>>

\* Error().stack captured in _getLogValues when reached through `method`
FreshStack(method) ==
    <<NoFrame, Frame(Str("_getLogValues"), Filename, 105, 37),
      Frame(Str("Logger.log"), Filename, 207, 23)>>
    \o (IF method = "log" THEN <<>>
        ELSE <<Frame(Str("Logger." \o method), Filename, 235, 17)>>)
    \o <<Frame(Str("main"), "/app/job.js", 12, 7)>>

---------------------------------------------------------------------------
(* Objects handed in by the caller                                         *)

\* v.f for the property f of a caller-supplied value
Prop(v, f) == IF f \in DOMAIN v THEN v[f] ELSE Undef

\* A color map: colors[level]
ColorsGet(colors, level) ==
    IF colors.s = "colorsA" /\ PropKey(level) = DecStr[ERROR] THEN Str("#a00")
    ELSE IF PropKey(level) \in ObjectProtoKeys THEN ObjectProtoGet(PropKey(level))
    ELSE Undef

\* EventContext with the embedded context taking precedence
EventContextEmbeddedFirst(context, optionsContext) ==
    OrElse(optionsContext, OrElse(context, Obj("{}")))

\* context takes precedence over errorOrMessageOrOptions.context
EventContext(context, optionsContext) ==
    OrElse(context, OrElse(optionsContext, Obj("{}")))

\* _getLogValues
getLogValues(appName, level, colors, errorOrMessageOrOptions, context, method) ==
    LET isString == TypeOf(errorOrMessageOrOptions) = "string"
        name == IF isString THEN Undef ELSE Prop(errorOrMessageOrOptions, "name")
        message == IF isString THEN errorOrMessageOrOptions
                   ELSE Prop(errorOrMessageOrOptions, "message")
        stack == IF isString THEN Undef ELSE Prop(errorOrMessageOrOptions, "stack")
        optionsContext == IF isString THEN Undef
                          ELSE Prop(errorOrMessageOrOptions, "context")
        trail == IF isString
                 THEN getTrailFromErrorStack(FreshStack(method), TRUE)
                 ELSE getTrailFromErrorStack(
                        IF Truthy(stack) THEN StackText(stack.s) ELSE FreshStack(method),
                        Truthy(stack))
    IN  [appName |-> appName,
         level |-> level,
         levelName |-> Get(logLevelNames, level),
         color |-> OrElse(IF Truthy(colors) THEN ColorsGet(colors, level) ELSE colors,
                          Get(defaultColors, level)),
         name |-> name,
         message |-> message,
         stack |-> stack,
         trail |-> trail,
         context |-> EventContext(context, optionsContext)]

---------------------------------------------------------------------------
(* Formatters                                                              *)

\* Object.entries(context) for the context objects of the model
Entries(context) ==
    CASE context.s = "ctxA" -> <<<<"a", Num(1)>>>>
      [] context.s = "ctxB" -> <<<<"a", Num(2)>>, <<"user", Str("u1")>>>>
      [] context.s = "ctxEmpty" -> <<>>
      [] OTHER -> <<>>

\* HasTrail with the trail taken to be there always
HasTrailAlways(trail) == TRUE

\* Object.keys(trail).length
HasTrail(trail) == ~trail.empty

\* _slackFormatter; a text is the sequence of the pieces of its template
slackFormatter(ev) ==
    LET header == [type |-> "header", text |-> <<Str("["), ev.levelName, Str("] "), ev.appName>>]
        body == [type |-> "section",
                 text |-> IF Truthy(ev.name) THEN <<ev.name, Str(": "), ev.message>>
                          ELSE <<ev.message>>]
        stackBlock == IF Truthy(ev.stack)
                      THEN <<[type |-> "section", text |-> <<Str("[code]"), ev.stack, Str("[/code]")>>]>>
                      ELSE <<>>
        time == <<<<Str("<!date "), Str("ts"), Str(" {date_num} {time_secs}>")>>>>
        trail == IF HasTrail(ev.trail)
                 THEN <<<<Str(":feelsobserve: "), Str(ev.trail.file)>>
                        \o (IF Truthy(ev.trail.scope) THEN <<Str("/"), ev.trail.scope>> ELSE <<>>)
                        \o <<Str(" line "), Num(ev.trail.line), Str(":"), Num(ev.trail.column)>>>>
                 ELSE <<>>
        custom == [i \in 1..Len(Entries(ev.context)) |->
                     <<Str(Entries(ev.context)[i][1]), Str(": "), Entries(ev.context)[i][2]>>]
        contextBlock == [type |-> "context", elements |-> time \o trail \o custom]
    IN  [kind |-> "slack", color |-> ev.color,
         blocks |-> <<header, body>> \o stackBlock \o <<contextBlock>>]

\* this._format(logValues): [threw, body]
CallFormat(format, ev) ==
    CASE format = Fn("_slackFormatter") -> [threw |-> FALSE, body |-> slackFormatter(ev)]
      [] format = Fn("fmtA") -> [threw |-> FALSE, body |-> [kind |-> "fmtA", of |-> ev]]
      [] format = Fn("Object.prototype.toString") ->
            [threw |-> FALSE, body |-> [kind |-> "string", s |-> "[object Object]"]]
      [] OTHER -> [threw |-> TRUE, body |-> [kind |-> "none"]]

---------------------------------------------------------------------------
(* class Logger                                                            *)

\* A Logger before its constructor has run setConfig
NewLogger ==
    [send |-> Undef, format |-> Undef, appName |-> Undef, minLevel |-> Undef,
     colors |-> Undef]

\* { f = d } = config: the destructuring default applies to undefined only
Default(v, d) == IF v = Undef THEN d ELSE v

\* Resolved with the built-in defaults only: a full replace
ResolvedReplace(this, config) ==
    [send |-> Default(Prop(config, "send"), this.send),
     format |-> Default(Prop(config, "format"), Num(SLACK)),
     appName |-> Default(Prop(config, "appName"), Str("My App")),
     minLevel |-> Default(Prop(config, "minLevel"), Num(WARNING)),
     colors |-> Prop(config, "colors")]

\* The values setConfig destructures out of config
Resolved(this, config) ==
    [send |-> Default(Prop(config, "send"), this.send),
     format |-> Default(Prop(config, "format"), OrElse(this.format, Num(SLACK))),
     appName |-> Default(Prop(config, "appName"), OrElse(this.appName, Str("My App"))),
     minLevel |-> Default(Prop(config, "minLevel"), OrElse(this.minLevel, Num(WARNING))),
     colors |-> Default(Prop(config, "colors"), this.colors)]

\* ConfigAssert without the check of format
ConfigAssertNoFormat(r) ==
    /\ TypeOf(r.send) = "function"
    /\ (In(r.minLevel, logLevels) \/ In(r.minLevel, logLevelNames))
    /\ TypeOf(r.appName) = "string"
    /\ Truthy(r.appName)
    /\ TypeOf(r.colors) \in {"undefined", "object"}
    /\ r.colors # Null

\* The assert of setConfig, on the destructured values
ConfigAssert(r) ==
    /\ TypeOf(r.send) = "function"
    /\ (TypeOf(r.format) = "function" \/ In(r.format, logFormats)
        \/ In(r.format, logFormatNames))
    /\ (In(r.minLevel, logLevels) \/ In(r.minLevel, logLevelNames))
    /\ TypeOf(r.appName) = "string"
    /\ Truthy(r.appName)
    /\ TypeOf(r.colors) \in {"undefined", "object"}
    /\ r.colors # Null

\* Logger.setConfig: [ok, obj], obj the Logger afterwards.  Destructuring
\* throws on undefined and null only; any other primitive has no
\* properties of these names.  The fields are assigned one after the
\* other, so a throw of _getFormat or _getLevel leaves the Logger with the
\* fields assigned before it.
setConfig(this, config) ==
    IF config.t \in {"undefined", "null"} \/ ~ConfigAssert(Resolved(this, config))
    THEN [ok |-> FALSE, obj |-> this]
    ELSE LET r == Resolved(this, config)
             sent == [this EXCEPT !.send = r.send]
             named == [sent EXCEPT !.format = getFormat(r.format),
                                   !.appName = r.appName]
         IN  IF getFormat(r.format) = Thrown THEN [ok |-> FALSE, obj |-> sent]
             ELSE IF getLevel(r.minLevel) = Thrown THEN [ok |-> FALSE, obj |-> named]
             ELSE [ok |-> TRUE,
                   obj |-> [named EXCEPT !.minLevel = getLevel(r.minLevel),
                                         !.colors = r.colors]]

\* The level a logging method passes to log
MethodLevel(method, level) ==
    CASE method = "debug" -> Num(DEBUG)
      [] method = "info" -> Num(INFO)
      [] method = "warning" -> Num(WARNING)
      [] method = "error" -> Num(ERROR)
      [] method = "critical" -> Num(CRITICAL)
      [] OTHER -> level

\* The assert of log
LogAssert(level, errorOrMessageOrOptions, context) ==
    /\ (In(level, logLevels) \/ In(level, logLevelNames))
    /\ Truthy(errorOrMessageOrOptions)
    /\ \/ TypeOf(errorOrMessageOrOptions) = "string"
       \/ /\ TypeOf(errorOrMessageOrOptions) = "object"
          /\ TypeOf(Prop(errorOrMessageOrOptions, "message")) = "string"
          /\ Truthy(Prop(errorOrMessageOrOptions, "message"))
          /\ TypeOf(Prop(errorOrMessageOrOptions, "name")) \in {"undefined", "string"}
          /\ TypeOf(Prop(errorOrMessageOrOptions, "stack")) \in {"undefined", "string"}
          /\ TypeOf(Prop(errorOrMessageOrOptions, "context")) \in {"undefined", "object"}
          /\ Prop(errorOrMessageOrOptions, "context") # Null
    /\ TypeOf(context) \in {"undefined", "object"}
    /\ context # Null

\* Adopt with log catching what send fails with
AdoptCaught(sendOutcome) == "resolved"

\* What the promise of an async function returning send's promise does
\* once that promise settles
Adopt(sendOutcome) == sendOutcome

\* BelowMin with the comparison the wrong way round
BelowMinSwapped(safeLevel, minLevel) == Less(minLevel, safeLevel)

\* don't log if less than minimum level for logger
BelowMin(safeLevel, minLevel) == Less(safeLevel, minLevel)

\* Deliver with the formatter's failure swallowed
DeliverSwallow(this, logValues, r) ==
    IF r.threw
    THEN [error |-> "", formatted |-> <<logValues>>, sent |-> <<>>]
    ELSE [error |-> "", formatted |-> <<logValues>>,
          sent |-> <<[send |-> this.send, body |-> r.body]>>]

\* The end of log: the formatter's failure is thrown on, its body is
\* handed to send
Deliver(this, logValues, r) ==
    IF r.threw
    THEN [error |-> "InvalidFormatter", formatted |-> <<logValues>>, sent |-> <<>>]
    ELSE [error |-> "", formatted |-> <<logValues>>,
          sent |-> <<[send |-> this.send, body |-> r.body]>>]

\* Logger.log up to and including the call of send: the error it throws
\* ("" when none), the events handed to the formatter, the payloads
\* handed to send
log(this, method, level, errorOrMessageOrOptions, context) ==
    LET lvl == MethodLevel(method, level)
        none == [error |-> "", formatted |-> <<>>, sent |-> <<>>]
    IN  IF ~LogAssert(lvl, errorOrMessageOrOptions, context)
        THEN [none EXCEPT !.error = "InvalidLogCall"]
        ELSE IF BelowMin(getLevel(lvl), this.minLevel) THEN none
        ELSE LET logValues == getLogValues(this.appName, getLevel(lvl), this.colors,
                                           errorOrMessageOrOptions, context, method)
             IN  Deliver(this, logValues, CallFormat(this.format, logValues))

---------------------------------------------------------------------------
(* _loggers and getLogger                                                  *)

Sym(x) == [t |-> "symbol", n |-> 0, s |-> x]

\* The property key of _loggers an id stands for: a symbol is its own key,
\* a string or number its string form
RegKey(id) == IF id.t = "symbol" THEN <<"symbol", id.s>> ELSE <<"string", PropKey(id)>>

\* id in _loggers
InLoggers(reg, id) ==
    RegKey(id) \in DOMAIN reg \/ (id.t # "symbol" /\ PropKey(id) \in ObjectProtoKeys)

\* Update with a second Logger made for the key
UpdateFresh(reg, heap, key, obj) ==
    [reg |-> [reg EXCEPT ![key] = Len(heap) + 1], heap |-> Append(heap, obj),
     error |-> "", ret |-> Len(heap) + 1]

\* existing logger: _loggers[id].setConfig(loggerConfig) has made obj of it
Update(reg, heap, key, obj) ==
    [reg |-> reg, heap |-> [heap EXCEPT ![reg[key]] = obj],
     error |-> "", ret |-> reg[key]]

\* getLogger on registry reg and instances heap: the registry and the
\* instances afterwards, the error thrown ("" when none) and the value
\* returned (an instance, or -1 for an inherited property of _loggers)
getLogger(reg, heap, idOrConfig, config) ==
    LET id == IF TypeOf(idOrConfig) \in {"string", "number"} THEN idOrConfig
              ELSE Sym("default")
        loggerConfig == IF TypeOf(idOrConfig) = "object" THEN idOrConfig ELSE config
        key == RegKey(id)
        same == [reg |-> reg, heap |-> heap, error |-> "", ret |-> 0]
    IN  IF InLoggers(reg, id)
        THEN IF key \in DOMAIN reg
             THEN IF Truthy(loggerConfig)
                  THEN LET r == setConfig(heap[reg[key]], loggerConfig)
                       IN  IF r.ok
                           THEN Update(reg, heap, key, r.obj)
                           ELSE [same EXCEPT !.heap = [heap EXCEPT ![reg[key]] = r.obj],
                                             !.error = "InvalidConfig"]
                  ELSE [same EXCEPT !.ret = reg[key]]
             ELSE IF Truthy(loggerConfig)
                  THEN [same EXCEPT !.error = "TypeError"]
                  ELSE [same EXCEPT !.ret = -1]
        ELSE IF ~Truthy(loggerConfig)
             THEN [same EXCEPT !.error = "NotConfigured"]
             ELSE LET r == setConfig(NewLogger, loggerConfig)
                  IN  IF r.ok
                      THEN [reg |-> (key :> (Len(heap) + 1)) @@ reg,
                            heap |-> Append(heap, r.obj),
                            error |-> "", ret |-> Len(heap) + 1]
                      ELSE [same EXCEPT !.error = "InvalidConfig"]

---------------------------------------------------------------------------
(* The calls a program makes                                               *)

\* Promises of send that may be outstanding at once
MaxPending == 2

NoCall ==
    [op |-> "none", idOrConfig |-> Undef, config |-> Undef, self |-> 0,
     method |-> "", level |-> Undef, input |-> Undef, context |-> Undef,
     error |-> "", ret |-> 0, formatted |-> <<>>, sent |-> <<>>,
     sendOutcome |-> "", promise |-> ""]

Init ==
    /\ loggers = <<>>
    /\ objs = <<>>
    /\ held = <<>>
    /\ pending = <<>>
    /\ last = NoCall

\* The instances the program holds
Held == {held[k] : k \in DOMAIN held}

\* The property key of _loggers a call getLogger(idOrConfig, ...) is about
KeyOf(idOrConfig) ==
    RegKey(IF TypeOf(idOrConfig) \in {"string", "number"} THEN idOrConfig
           ELSE Sym("default"))

\* getLogger(idOrConfig, config); the program keeps the Logger returned
GetLoggerCall(idOrConfig, config) ==
    LET r == getLogger(loggers, objs, idOrConfig, config)
    IN  /\ last.op = "none"
        /\ loggers' = r.reg
        /\ objs' = r.heap
        /\ held' = IF r.ret > 0 /\ KeyOf(idOrConfig) \notin DOMAIN held
                   THEN (KeyOf(idOrConfig) :> r.ret) @@ held
                   ELSE held
        /\ UNCHANGED pending
        /\ last' = [NoCall EXCEPT !.op = "getLogger", !.idOrConfig = idOrConfig,
                                  !.config = config, !.error = r.error, !.ret = r.ret]

\* logger.setConfig(config) on a Logger the program holds
SetConfigCall(h, config) ==
    LET r == setConfig(objs[h], config)
    IN  /\ last.op = "none"
        /\ h \in Held
        /\ objs' = [objs EXCEPT ![h] = r.obj]
        /\ UNCHANGED <<loggers, held, pending>>
        /\ last' = [NoCall EXCEPT !.op = "setConfig", !.self = h, !.config = config,
                                  !.error = IF r.ok THEN "" ELSE "InvalidConfig"]

\* Started with the newest call of send put before the earlier ones
StartedFirst(outstanding, h, send) ==
    <<[self |-> h, send |-> send]>> \o outstanding

\* this._send(body) has been called and has returned a promise: the
\* promises outstanding, in the order the calls of send started
Started(outstanding, h, send) ==
    Append(outstanding, [self |-> h, send |-> send])

\* logger.log(level, input, context), or logger.debug(input, context) and
\* the like, on a Logger the program holds; sendDoes is what the send
\* callback does when called: return a promise, or throw
LogCall(h, method, level, input, context, sendDoes) ==
    LET r == log(objs[h], method, level, input, context)
        base == [NoCall EXCEPT !.op = "log", !.self = h, !.method = method,
                               !.level = level, !.input = input, !.context = context,
                               !.formatted = r.formatted, !.sent = r.sent]
    IN  /\ last.op = "none"
        /\ h \in Held
        /\ UNCHANGED <<loggers, objs, held>>
        /\ IF r.sent = <<>>
           THEN /\ sendDoes = "promise"
                /\ UNCHANGED pending
                /\ last' = [base EXCEPT !.error = r.error,
                                        !.promise = IF r.error = "" THEN "resolved"
                                                    ELSE "rejected"]
           ELSE IF sendDoes = "throws"
           THEN /\ UNCHANGED pending
                /\ last' = [base EXCEPT !.error = "SendError", !.sendOutcome = "rejected",
                                        !.promise = Adopt("rejected")]
           ELSE /\ Len(pending) < MaxPending
                /\ pending' = Started(pending, h, r.sent[1].send)
                /\ last' = [base EXCEPT !.sendOutcome = "pending", !.promise = "pending"]

\* The i-th outstanding promise of send settles, and with it the promise
\* log returned
SettleCall(i, outcome) ==
    /\ last.op = "none"
    /\ i \in 1..Len(pending)
    /\ pending' = SubSeq(pending, 1, i - 1) \o SubSeq(pending, i + 1, Len(pending))
    /\ UNCHANGED <<loggers, objs, held>>
    /\ last' = [NoCall EXCEPT !.op = "settle", !.self = pending[i].self,
                              !.error = IF Adopt(outcome) = "rejected" THEN "SendError" ELSE "",
                              !.sendOutcome = outcome, !.promise = Adopt(outcome)]

\* The call is over: control is back in the program, which makes its next
\* call or lets the event loop run a settled promise's reactions
Continue ==
    /\ last.op # "none"
    /\ last' = NoCall
    /\ UNCHANGED <<loggers, objs, held, pending>>

---------------------------------------------------------------------------
(* The arguments the calls are made with                                   *)

\* A config object literal; Undef is an omitted property
Cfg(send, format, appName, minLevel, colors) ==
    [t |-> "object", n |-> 0, s |-> "config", send |-> send, format |-> format,
     appName |-> appName, minLevel |-> minLevel, colors |-> colors]

ConfigFields == {"send", "format", "appName", "minLevel", "colors"}

\* The number of properties a config object literal sets
Given(c) == Cardinality({f \in ConfigFields : c[f] # Undef})

SendArgs == {Undef, Fn("send1"), Fn("send2"), Str("hook")}
FormatArgs == {Undef, Num(SLACK), Str("SLACK"), Fn("fmtA"), Str("__proto__"), Num(9)}
AppNameArgs == {Undef, Str("New"), Str(""), Num(7)}
MinLevelArgs == {Undef, Str("ERROR"), Str("toString"), Num(0), Null}
ColorsArgs == {Undef, Obj("colorsA"), Null, Str("red")}

\* Config objects setting up to two properties
SmallCfgs ==
    {cfg \in {Cfg(a, b, c, d, e) : a \in SendArgs, b \in FormatArgs, c \in AppNameArgs,
                                   d \in MinLevelArgs, e \in ColorsArgs} : Given(cfg) <= 2}

\* Values passed as config that are no config object
NonCfgs == {Undef, Null, Num(5), Str("cfg")}

SendDoes == {"promise", "throws"}
Outcomes == {"resolved", "rejected"}

\* A log input object; Undef is an omitted property
Msg(message, name, stack, context) ==
    [t |-> "object", n |-> 0, s |-> "input", message |-> message, name |-> name,
     stack |-> stack, context |-> context]

\* The default config: only send is given
CfgSend(send) == Cfg(send, Undef, Undef, Undef, Undef)

---------------------------------------------------------------------------
(* Configuration: one logger, configured and re-configured every way       *)

ConfigNext ==
    \/ \E c \in SmallCfgs \cup NonCfgs : GetLoggerCall(Str("a"), c)
    \/ \E h \in Held, c \in SmallCfgs \cup NonCfgs : SetConfigCall(h, c)
    \/ \E h \in Held, m \in {"warning", "error"}, d \in SendDoes :
          LogCall(h, m, Undef, Str("boom"), Undef, d)
    \/ \E i \in 1..Len(pending), o \in Outcomes : SettleCall(i, o)
    \/ Continue

SpecConfig == Init /\ [][ConfigNext]_vars

---------------------------------------------------------------------------
(* Registry: several ids, few configs                                      *)

RegistryIds ==
    {Undef, Null, Num(1), Str("1"), Str("default"), Str("toString")}

RegistryCfgs ==
    {CfgSend(Fn("send1")),
     Cfg(Undef, Undef, Str("New"), Undef, Undef),
     CfgSend(Str("hook"))}

RegistryNext ==
    \/ \E id \in RegistryIds, c \in RegistryCfgs \cup {Undef, Null} : GetLoggerCall(id, c)
    \/ \E c \in RegistryCfgs : GetLoggerCall(c, Undef)
    \/ \E h \in Held, c \in RegistryCfgs : SetConfigCall(h, c)
    \/ \E h \in Held, d \in SendDoes :
          LogCall(h, "error", Undef, Str("boom"), Undef, d)
    \/ \E i \in 1..Len(pending), o \in Outcomes : SettleCall(i, o)
    \/ Continue

SpecRegistry == Init /\ [][RegistryNext]_vars

---------------------------------------------------------------------------
(* Logging: one logger, few configs, log called every way                  *)

LogCfgs ==
    {CfgSend(Fn("send1")),
     Cfg(Undef, Fn("fmtA"), Undef, Undef, Undef),
     Cfg(Undef, Fn("fmtThrow"), Undef, Undef, Undef),
     Cfg(Undef, Num(SLACK), Undef, Undef, Undef),
     Cfg(Undef, Undef, Undef, Str("WARNING"), Undef),
     Cfg(Undef, Undef, Undef, Num(DEBUG), Undef),
     Cfg(Undef, Undef, Undef, Num(CRITICAL), Undef),
     Cfg(Undef, Undef, Undef, Undef, Obj("colorsA"))}

Methods == {"debug", "info", "warning", "error", "critical"}

LevelArgs ==
    {Num(0), Num(INFO), Num(WARNING), Num(CRITICAL), Num(6), Str("INFO"), Str("ERROR"),
     Str("toString"), Str("BOGUS"), Undef}

InputArgs ==
    {Str("boom"), Str(""), Undef, Num(7),
     Msg(Str("m"), Undef, Undef, Undef),
     Msg(Str("m"), Undef, Undef, Obj("ctxA")),
     Msg(Str("m"), Str("TypeError"), Str("stackDb"), Undef),
     Msg(Str("m"), Str("Error"), Str("stackLib"), Undef),
     Msg(Str(""), Undef, Undef, Undef),
     Msg(Str("m"), Num(1), Undef, Undef),
     Msg(Str("m"), Undef, Undef, Null)}

ContextArgs == {Undef, Obj("ctxB"), Obj("ctxEmpty"), Null, Str("ctx")}

LogNext ==
    \/ \E c \in LogCfgs : GetLoggerCall(c, Undef)
    \/ \E h \in Held, l \in LevelArgs, x \in InputArgs, c \in ContextArgs,
          d \in SendDoes : LogCall(h, "log", l, x, c, d)
    \/ \E h \in Held, m \in Methods, x \in InputArgs, c \in ContextArgs,
          d \in SendDoes : LogCall(h, m, Undef, x, c, d)
    \/ \E i \in 1..Len(pending), o \in Outcomes : SettleCall(i, o)
    \/ Continue

SpecLog == Init /\ [][LogNext]_vars

---------------------------------------------------------------------------
(* Trail extraction: _getTrailFromErrorStack on every short stack text     *)

\* Lines of a stack text
MaxLines == 3

\* The lines stack texts are made of: a line that is no frame, two frames
\* of the module itself, frames of the program with and without a scope
TrailLines ==
    {NoFrame,
     Frame(Str("_getLogValues"), Filename, 105, 37),
     Frame(Str("Logger.log"), Filename, 207, 23),
     Frame(Str("main"), "/app/job.js", 12, 7),
     Frame(Str("runQuery"), "/app/db/query.js", 40, 11),
     Frame(Undef, "/app/job.js", 3, 1)}

RECURSIVE StackTexts(_)
\* The stack texts of up to n lines
StackTexts(n) ==
    IF n = 0 THEN {<<>>}
    ELSE StackTexts(n - 1)
         \cup {Append(t, l) : t \in {u \in StackTexts(n - 1) : Len(u) = n - 1},
                               l \in TrailLines}

\* The arguments of a call of _getTrailFromErrorStack that is about to run
TrailInit ==
    /\ loggers = <<>>
    /\ objs = <<>>
    /\ held = <<>>
    /\ pending = <<>>
    /\ last \in {[op |-> "trailArgs", stack |-> t, excludeCurrentModule |-> x] :
                    t \in StackTexts(MaxLines), x \in BOOLEAN}

\* _getTrailFromErrorStack(stack, excludeCurrentModule) runs and returns
TrailCall ==
    /\ last.op = "trailArgs"
    /\ last' = [op |-> "trail", stack |-> last.stack,
                excludeCurrentModule |-> last.excludeCurrentModule,
                error |-> "",
                trail |-> getTrailFromErrorStack(last.stack, last.excludeCurrentModule)]
    /\ UNCHANGED <<loggers, objs, held, pending>>

SpecTrail == TrailInit /\ [][TrailCall]_vars

---------------------------------------------------------------------------
(* Rendering: _slackFormatter on events of every shape                     *)

\* The events handed to _slackFormatter: name and stack absent, given and
\* empty; the trail empty, with and without scope; context with no, one
\* and two properties
FormatEvents ==
    {[appName |-> Str("My App"), level |-> Num(ERROR), levelName |-> levelName,
      color |-> color, name |-> name, message |-> Str("m"), stack |-> stack,
      trail |-> trail, context |-> context] :
        levelName \in {Str("ERROR")},
        color \in {Str("#f00"), Str("#a00")},
        name \in {Undef, Str("TypeError"), Str("")},
        stack \in {Undef, Str("stackDb"), Str("")},
        trail \in {EmptyTrail,
                   [empty |-> FALSE, scope |-> Str("main"), file |-> "job.js",
                    line |-> 12, column |-> 7],
                   [empty |-> FALSE, scope |-> Undef, file |-> "job.js",
                    line |-> 3, column |-> 1]},
        context \in {Obj("{}"), Obj("ctxEmpty"), Obj("ctxA"), Obj("ctxB")}}

\* The event of a call of _slackFormatter that is about to run
FormatInit ==
    /\ loggers = <<>>
    /\ objs = <<>>
    /\ held = <<>>
    /\ pending = <<>>
    /\ last \in {[op |-> "formatArgs", event |-> ev] : ev \in FormatEvents}

\* _slackFormatter(event) runs and returns the payload
FormatCall ==
    /\ last.op = "formatArgs"
    /\ last' = [op |-> "format", event |-> last.event,
                payload |-> slackFormatter(last.event)]
    /\ UNCHANGED <<loggers, objs, held, pending>>

SpecFormat == FormatInit /\ [][FormatCall]_vars

---------------------------------------------------------------------------
(* Level resolution: _getLevel on values of every type                     *)

\* The values _getLevel is called with: small numbers, their decimal
\* strings, the level names in several spellings, names plain objects
\* inherit, other strings, and values that are neither string nor number
LevelInputs ==
    {Num(k) : k \in DOMAIN DecStr}
    \cup {Str(DecStr[k]) : k \in DOMAIN DecStr}
    \cup {Str(x) : x \in DOMAIN logLevels}
    \cup {Str(x) : x \in {"debug", "info", "warning", "error", "critical"}}
    \cup {Str(x) : x \in ObjectProtoKeys}
    \cup {Str(x) : x \in {"", "BOGUS", "WARN", "FATAL", "Warning", " INFO"}}
    \cup {Undef, Null, Obj("{}"), Fn("f")}

\* The argument of a call of _getLevel that is about to run
LevelInit ==
    /\ loggers = <<>>
    /\ objs = <<>>
    /\ held = <<>>
    /\ pending = <<>>
    /\ last \in {[op |-> "levelArgs", level |-> l] : l \in LevelInputs}

\* _getLevel(level) runs, and returns or throws
LevelCall ==
    /\ last.op = "levelArgs"
    /\ last' = [op |-> "level", level |-> last.level, result |-> getLevel(last.level)]
    /\ UNCHANGED <<loggers, objs, held, pending>>

SpecLevel == LevelInit /\ [][LevelCall]_vars

---------------------------------------------------------------------------
(* What the specification calls valid                                      *)

Ranks == DEBUG..CRITICAL

LevelNames == {"DEBUG", "INFO", "WARNING", "ERROR", "CRITICAL"}

KnownRank(v) == v.t = "number" /\ v.n \in Ranks

KnownLevel(v) == KnownRank(v) \/ (v.t = "string" /\ v.s \in LevelNames)

\* The rank of a known level
RankOf(v) ==
    IF v.t = "number" THEN v.n
    ELSE CASE v.s = "DEBUG" -> DEBUG [] v.s = "INFO" -> INFO
           [] v.s = "WARNING" -> WARNING [] v.s = "ERROR" -> ERROR
           [] OTHER -> CRITICAL

\* A non-empty string, or an object with a non-empty string message, an
\* optional string name, an optional string stack and an optional
\* non-null mapping context
ValidInput(x) ==
    \/ x.t = "string" /\ x.s # ""
    \/ /\ x.t = "object"
       /\ Prop(x, "message").t = "string"
       /\ Prop(x, "message").s # ""
       /\ Prop(x, "name").t \in {"undefined", "string"}
       /\ Prop(x, "stack").t \in {"undefined", "string"}
       /\ Prop(x, "context").t \in {"undefined", "object"}

\* Absent, or a non-null mapping
ValidContext(c) == c.t \in {"undefined", "object"}

\* A log call with valid arguments
ValidLogCall(c) ==
    /\ KnownLevel(MethodLevel(c.method, c.level))
    /\ ValidInput(c.input)
    /\ ValidContext(c.context)

\* The rank a log call with a known level is made at
CallRank(c) == RankOf(MethodLevel(c.method, c.level))

\* Formatters that return for every event
Returning == {Fn("_slackFormatter"), Fn("fmtA")}

---------------------------------------------------------------------------
(* Claims about log                                                        *)

\* C1: a log call with valid arguments whose rank is strictly below the
\* logger's minLevel invokes neither the formatter nor send and completes
\* successfully; with minLevel WARNING, debug and info never invoke send.
C1_LevelFilter ==
    last.op = "log" =>
        /\ (/\ ValidLogCall(last)
            /\ KnownRank(objs[last.self].minLevel)
            /\ CallRank(last) < objs[last.self].minLevel.n)
           => (/\ last.formatted = <<>>
               /\ last.sent = <<>>
               /\ last.error = ""
               /\ last.promise = "resolved")
        /\ (objs[last.self].minLevel = Num(WARNING) /\ last.method \in {"debug", "info"})
           => last.sent = <<>>

\* info("boom") on a logger at minLevel WARNING, with an earlier send still
\* outstanding, was a successful no-op
C1_Witness ==
    /\ last.op = "log"
    /\ last.method = "info"
    /\ last.input = Str("boom")
    /\ objs[last.self].minLevel = Num(WARNING)
    /\ last.promise = "resolved"
    /\ last.sent = <<>>
    /\ Len(pending) > 0

\* C2: a log call with valid arguments at or above minLevel whose formatter
\* returns invokes send exactly once, with the body the formatter returned
\* for the one event rendered, and log's promise ends as send's does:
\* rejected when send throws or its promise rejects, resolved when it
\* resolves, pending until then.
C2_Delivery ==
    /\ (/\ last.op = "log"
        /\ ValidLogCall(last)
        /\ KnownRank(objs[last.self].minLevel)
        /\ CallRank(last) >= objs[last.self].minLevel.n
        /\ objs[last.self].format \in Returning)
       => (/\ Len(last.formatted) = 1
           /\ Len(last.sent) = 1
           /\ last.sent[1].send = objs[last.self].send
           /\ last.sent[1].body = CallFormat(objs[last.self].format, last.formatted[1]).body
           /\ last.sendOutcome \in {"pending", "rejected"}
           /\ last.promise = last.sendOutcome
           /\ last.error = IF last.sendOutcome = "rejected" THEN "SendError" ELSE "")
    /\ last.op = "settle"
       => (/\ last.sendOutcome \in Outcomes
           /\ last.promise = last.sendOutcome
           /\ last.error = IF last.sendOutcome = "rejected" THEN "SendError" ELSE "")

\* The promise send returned has rejected, and log's promise with it
C2_Witness ==
    /\ last.op = "settle"
    /\ last.sendOutcome = "rejected"
    /\ last.promise = "rejected"

C9_FormatterFailure ==
    [][(/\ last'.op = "log"
        /\ ValidLogCall(last')
        /\ KnownRank(objs[last'.self].minLevel)
        /\ CallRank(last') >= objs[last'.self].minLevel.n
        /\ objs[last'.self].format = Fn("fmtThrow"))
       => (/\ last'.error = "InvalidFormatter"
           /\ last'.promise = "rejected"
           /\ Len(last'.formatted) = 1
           /\ last'.sent = <<>>
           /\ objs' = objs
           /\ loggers' = loggers
           /\ pending' = pending)]_vars

\* error(...) on a logger whose formatter throws was rejected
C9_Witness ==
    /\ last.op = "log"
    /\ last.method = "error"
    /\ objs[last.self].format = Fn("fmtThrow")
    /\ last.error = "InvalidFormatter"
    /\ last.promise = "rejected"

\* C10: a log call whose level is no known rank or name, whose input is
\* not valid, or whose context argument is given and is no non-null
\* mapping, is rejected with InvalidLogCall, and neither the formatter nor
\* send is invoked.
C10_InvalidCallsFail ==
    (last.op = "log" /\ ~ValidLogCall(last)) =>
        /\ last.error = "InvalidLogCall"
        /\ last.promise = "rejected"
        /\ last.formatted = <<>>
        /\ last.sent = <<>>

---------------------------------------------------------------------------
(* Claims about the registry                                               *)

\* The config of a call: getLogger(config) passes it first, and a null
\* first argument counts as a config that is not there
GivenConfig(c) ==
    IF c.op = "getLogger" /\ TypeOf(c.idOrConfig) = "object" THEN c.idOrConfig
    ELSE c.config

\* getLogger() or getLogger(key), with no config
Lookup(c) ==
    /\ c.op = "getLogger"
    /\ c.idOrConfig.t \in {"undefined", "string", "number"}
    /\ c.config = Undef

\* C3: getLogger() and getLogger(key) fail with NotConfigured when the
\* logger of that key was never successfully configured, for every key,
\* and create no logger.
C3_NotConfigured ==
    (Lookup(last) /\ KeyOf(last.idOrConfig) \notin DOMAIN held) =>
        /\ last.error = "NotConfigured"
        /\ last.ret = 0
        /\ KeyOf(last.idOrConfig) \notin DOMAIN loggers

\* C4: once getLogger has returned the logger of a key, the registry keeps
\* that instance for the key for good, holds one instance per key, every
\* later getLogger(key) returns it, and a later getLogger(key, config2)
\* that succeeds returns it too, with config2 applied to it.
C4_RegistryIdentity ==
    [][/\ \A k \in DOMAIN held : k \in DOMAIN loggers' /\ loggers'[k] = held[k]
       /\ Len(objs') = Cardinality(DOMAIN loggers')
       /\ (last'.op = "getLogger" /\ KeyOf(last'.idOrConfig) \in DOMAIN held)
          => LET h == held[KeyOf(last'.idOrConfig)]
                 given == GivenConfig(last')
             IN  /\ Lookup(last') => last'.error = ""
                 /\ last'.error = "" => last'.ret = h
                 /\ (last'.error = "" /\ Prop(given, "appName") # Undef)
                    => objs'[h].appName = given.appName
                 /\ last'.error # "" => objs'[h] = objs[h]]_vars

\* getLogger('1', { appName: 'New' }) returned the instance first returned
\* for that key, which now carries the new appName, beside another logger
C4_Witness ==
    /\ last.op = "getLogger"
    /\ last.idOrConfig = Str("1")
    /\ last.config = Cfg(Undef, Undef, Str("New"), Undef, Undef)
    /\ last.error = ""
    /\ <<"string", "1">> \in DOMAIN held
    /\ last.ret = held[<<"string", "1">>]
    /\ objs[last.ret].appName = Str("New")
    /\ Len(objs) >= 2

---------------------------------------------------------------------------
(* Claims about setConfig                                                  *)

\* The built-in defaults, as stored
BuiltIn ==
    [send |-> Undef, format |-> Fn("_slackFormatter"), appName |-> Str("My App"),
     minLevel |-> Num(WARNING), colors |-> Undef]

\* C5: in a setConfig that succeeds, directly or through getLogger, every
\* field the config omits keeps the logger's stored value, and on a new
\* logger takes the built-in default; so { appName: 'New' } alone leaves
\* send, format, minLevel and colors as they were.
C5_OmittedFields ==
    [][/\ (last'.op = "setConfig" /\ last'.error = "")
          => \A f \in ConfigFields :
                Prop(last'.config, f) = Undef
                => objs'[last'.self][f] = objs[last'.self][f]
       /\ (last'.op = "getLogger" /\ last'.error = "" /\ Truthy(GivenConfig(last')))
          => \A f \in ConfigFields :
                Prop(GivenConfig(last'), f) = Undef
                => objs'[last'.ret][f] =
                      IF KeyOf(last'.idOrConfig) \in DOMAIN loggers
                      THEN objs[last'.ret][f]
                      ELSE BuiltIn[f]]_vars

\* setConfig({ appName: 'New' }) on a logger whose other four fields had
\* all been set away from the defaults left them as they were
C5_Witness ==
    /\ last.op = "setConfig"
    /\ last.config = Cfg(Undef, Undef, Str("New"), Undef, Undef)
    /\ last.error = ""
    /\ objs[last.self] =
          [send |-> Fn("send2"), format |-> Fn("fmtA"), appName |-> Str("New"),
           minLevel |-> Num(ERROR), colors |-> Obj("colorsA")]

\* The fields of a config once the omitted ones are resolved against the
\* logger's stored values and the built-in defaults
SpecFields(this, config) ==
    [f \in ConfigFields |->
        IF Prop(config, f) # Undef THEN Prop(config, f)
        ELSE IF this[f] # Undef THEN this[f]
        ELSE BuiltIn[f]]

\* send callable, format callable or a known id or name, minLevel a known
\* rank or name, appName a non-empty string, colors absent or a mapping
SpecValidConfig(r) ==
    /\ r.send.t = "function"
    /\ (r.format.t = "function" \/ r.format \in {Num(SLACK), Str("SLACK")})
    /\ KnownLevel(r.minLevel)
    /\ (r.appName.t = "string" /\ r.appName.s # "")
    /\ r.colors.t \in {"undefined", "object"}

\* C6: setConfig succeeds exactly when the config is a non-null object and,
\* with omitted fields resolved, send is callable, format is a callable or
\* a known id or name, minLevel is a known rank or name, appName is a
\* non-empty string and colors is absent or a non-null mapping; otherwise
\* it fails with InvalidConfig.
C6_Validation ==
    [][last'.op = "setConfig"
       => /\ last'.error \in {"", "InvalidConfig"}
          /\ last'.error = ""
             <=> (/\ last'.config.t = "object"
                  /\ SpecValidConfig(SpecFields(objs[last'.self], last'.config)))]_vars

\* C7: every logger in the registry has a callable send, a callable
\* render function, a non-empty string appName, a minLevel that is one of
\* the five ranks, and colors absent or a non-null mapping.
C7_ConfigInvariant ==
    \A k \in DOMAIN loggers :
        LET lg == objs[loggers[k]]
        IN  /\ lg.send.t = "function"
            /\ lg.format.t = "function"
            /\ (lg.appName.t = "string" /\ lg.appName.s # "")
            /\ KnownRank(lg.minLevel)
            /\ lg.colors.t \in {"undefined", "object"}

---------------------------------------------------------------------------
(* Claims about the Log Event                                              *)

\* The canonical name of a rank
NameOfRank(r) ==
    CASE r = DEBUG -> "DEBUG" [] r = INFO -> "INFO" [] r = WARNING -> "WARNING"
      [] r = ERROR -> "ERROR" [] OTHER -> "CRITICAL"

\* The built-in default color of a rank
BuiltInColor(r) ==
    CASE r = DEBUG -> "#eee" [] r = INFO -> "#0f0" [] r = WARNING -> "#ff0"
      [] OTHER -> "#f00"

\* The entry a logger's colors map has for a rank, Undef when it has none
ColorEntry(colors, r) ==
    IF colors = Obj("colorsA") /\ r = ERROR THEN Str("#a00") ELSE Undef

\* The event ev is the one the specification describes for the log call c
\* on the logger lg
EventConsistent(ev, c, lg) ==
    LET lvl == MethodLevel(c.method, c.level)
    IN  /\ KnownLevel(lvl)
        /\ ev.level = Num(RankOf(lvl))
        /\ ev.levelName = Str(NameOfRank(RankOf(lvl)))
        /\ ev.appName = lg.appName
        /\ ev.color = IF ColorEntry(lg.colors, RankOf(lvl)) # Undef
                      THEN ColorEntry(lg.colors, RankOf(lvl))
                      ELSE Str(BuiltInColor(RankOf(lvl)))
        /\ c.input.t = "string"
           => (ev.name = Undef /\ ev.stack = Undef /\ ev.message = c.input)

\* C11: for every log call that reaches the formatter, the event has level
\* equal to the rank of the call's level (given as a rank or as a name),
\* levelName the canonical name of that rank, appName the logger's
\* appName, color the logger's color for that rank when its colors map has
\* one and the built-in default otherwise; for a plain-string input name
\* and stack are absent and message is that string.
C11_EventConsistency ==
    (last.op = "log" /\ Len(last.formatted) = 1)
        => EventConsistent(last.formatted[1], last, objs[last.self])

\* The input object of a log call carries an explicit stack
ExplicitStack(c) == c.input.t = "object" /\ Truthy(Prop(c.input, "stack"))

\* C12: when the input object carries an explicit stack the trail is the
\* first matching frame of that stack (self-exclusion off); when it does
\* not (plain string, or object without stack) the trail is extracted from
\* a fresh stack with self-exclusion on, so it never names the logging
\* module's own file.
C12_TrailSource ==
    (last.op = "log" /\ Len(last.formatted) = 1) =>
        LET trail == last.formatted[1].trail
        IN  IF ExplicitStack(last)
            THEN trail = getTrailFromErrorStack(StackText(last.input.stack.s), FALSE)
            ELSE /\ trail = getTrailFromErrorStack(FreshStack(last.method), TRUE)
                 /\ (trail.empty \/ trail.file # Relative(Filename))

---------------------------------------------------------------------------
(* Claims about the trail extractor                                        *)

\* The lines of a stack text that are frames the extractor may return
Eligible(stack, excludeSelf) ==
    {i \in 1..Len(stack) : stack[i].m /\ (excludeSelf => stack[i].file # Filename)}

\* C13: for every stack text the extractor returns without raising; with
\* excludeSelf false it returns the first line matching the frame pattern,
\* with excludeSelf true the first matching line whose file is not the
\* module's own, however many frames of the module precede it, and the
\* empty Trail when there is no such line; a non-empty Trail carries file,
\* line and column.
C13_TrailExtraction ==
    last.op = "trail" =>
        LET e == Eligible(last.stack, last.excludeCurrentModule)
            first == CHOOSE i \in e : \A j \in e : i <= j
        IN  /\ last.error = ""
            /\ e = {} => last.trail.empty
            /\ e # {} =>
                  /\ ~last.trail.empty
                  /\ last.trail.scope = last.stack[first].scope
                  /\ last.trail.file = Relative(last.stack[first].file)
                  /\ last.trail.line = last.stack[first].line
                  /\ last.trail.column = last.stack[first].column
            /\ ~last.trail.empty =>
                  (last.trail.file # "" /\ last.trail.line > 0 /\ last.trail.column > 0)

\* With excludeSelf, two frames of the module in a row were passed over
\* and the frame of the program after them was returned
C13_Witness ==
    /\ last.op = "trail"
    /\ last.excludeCurrentModule
    /\ Len(last.stack) = 3
    /\ last.stack[1].file = Filename
    /\ last.stack[2].file = Filename
    /\ last.stack[3].file = "/app/job.js"
    /\ ~last.trail.empty
    /\ last.trail.file = "job.js"

---------------------------------------------------------------------------
(* Claims about the default renderer                                       *)

\* The payload is built from the event as the specification describes,
\* hasName and hasStack saying whether name and stack count as present
Rendered(ev, payload, hasName, hasStack) ==
    LET blocks == payload.blocks
        elements == blocks[Len(blocks)].elements
        entries == Entries(ev.context)
        attributed == IF ev.trail.empty THEN 0 ELSE 1
    IN  /\ Len(blocks) = 3 + (IF hasStack THEN 1 ELSE 0)
        /\ blocks[1].type = "header"
        /\ blocks[1].text = <<Str("["), ev.levelName, Str("] "), ev.appName>>
        /\ blocks[2].type = "section"
        /\ blocks[2].text = IF hasName THEN <<ev.name, Str(": "), ev.message>>
                            ELSE <<ev.message>>
        /\ hasStack => (/\ blocks[3].type = "section"
                        /\ Len(blocks[3].text) = 3
                        /\ blocks[3].text[2] = ev.stack)
        /\ blocks[Len(blocks)].type = "context"
        /\ Len(elements) = 1 + attributed + Len(entries)
        /\ elements[1][2] = Str("ts")
        /\ attributed = 1 =>
              elements[2] =
                 <<Str(":feelsobserve: "), Str(ev.trail.file)>>
                 \o (IF ev.trail.scope # Undef THEN <<Str("/"), ev.trail.scope>>
                     ELSE <<>>)
                 \o <<Str(" line "), Num(ev.trail.line), Str(":"),
                      Num(ev.trail.column)>>
        /\ \A i \in 1..Len(entries) :
              elements[1 + attributed + i] =
                 <<Str(entries[i][1]), Str(": "), entries[i][2]>>
        /\ payload.color = ev.color

\* C14: the payload's blocks are the header, the body ('name: message'
\* when name is present, else the message), a stack block if and only if
\* stack is present, and last the context block, whose elements are the
\* timestamp, one source-attribution element if and only if the Trail is
\* non-empty, and one element per context pair in mapping order; the
\* payload's color is the event's.
C14_RendererStructure ==
    last.op = "format" =>
        Rendered(last.event, last.payload, last.event.name # Undef,
                 last.event.stack # Undef)

\* C14 as amended: the same, with name and stack counting as present when
\* they are non-empty strings.
C14_RendererStructureNonEmpty ==
    last.op = "format" =>
        Rendered(last.event, last.payload, Truthy(last.event.name),
                 Truthy(last.event.stack))

\* An event with name, stack, a Trail and two context pairs was rendered
\* as four blocks, the last with four elements
C14_Witness ==
    /\ last.op = "format"
    /\ last.event.name = Str("TypeError")
    /\ last.event.stack = Str("stackDb")
    /\ ~last.event.trail.empty
    /\ last.event.context = Obj("ctxB")
    /\ Len(last.payload.blocks) = 4
    /\ Len(last.payload.blocks[4].elements) = 4

---------------------------------------------------------------------------
(* Claims about level resolution                                           *)

\* The level tables map the five names onto the five ranks and back
TablesBijective ==
    /\ Cardinality(DOMAIN logLevels) = Cardinality(Ranks)
    /\ Cardinality(DOMAIN logLevelNames) = Cardinality(Ranks)
    /\ \A r \in Ranks :
          /\ Get(logLevels, Str(NameOfRank(r))) = Num(r)
          /\ Get(logLevelNames, Num(r)) = Str(NameOfRank(r))
    /\ \A r1, r2 \in Ranks : NameOfRank(r1) = NameOfRank(r2) => r1 = r2

\* C15: the level table is a bijection between the five ranks and their
\* names; rankOf returns r for every valid rank r and for the name mapped
\* to r, and fails with UnknownLevel for every input that is neither a
\* valid rank nor a valid level name.
C15_LevelResolution ==
    last.op = "level" =>
        /\ TablesBijective
        /\ KnownLevel(last.level) => last.result = Num(RankOf(last.level))
        /\ ~KnownLevel(last.level) => last.result = Thrown

---------------------------------------------------------------------------
(* Claims about failed configuration                                       *)

\* getLogger() or getLogger(key) for the key a call getLogger(...) was
\* about, made on registry reg and instances heap
LookupAgain(reg, heap, c) ==
    getLogger(reg, heap,
              IF TypeOf(c.idOrConfig) \in {"string", "number"} THEN c.idOrConfig
              ELSE Undef,
              Undef)

\* C16: a setConfig or getLogger(.., config) call that fails validation
\* changes nothing: an existing logger keeps every field of its
\* configuration and stays registered, and after a failed first-time
\* getLogger(key, badConfig) the key is still unconfigured, so that
\* getLogger(key) fails with NotConfigured.
C16_FailureAtomicity ==
    [][/\ (last'.op = "setConfig" /\ last'.error = "InvalidConfig")
          => (objs' = objs /\ loggers' = loggers /\ held' = held)
       /\ (last'.op = "getLogger" /\ last'.error = "InvalidConfig")
          => /\ objs' = objs
             /\ loggers' = loggers
             /\ held' = held
             /\ KeyOf(last'.idOrConfig) \notin DOMAIN loggers
                => LookupAgain(loggers', objs', last').error = "NotConfigured"]_vars

\* setConfig({ send: send2, format: 9 }) failed on a logger that kept its
\* send, send1
C16_Witness ==
    /\ last.op = "setConfig"
    /\ last.config = Cfg(Fn("send2"), Num(9), Undef, Undef, Undef)
    /\ last.error = "InvalidConfig"
    /\ objs[last.self].send = Fn("send1")

\* getLogger('a', { appName: 'New' }) failed as the first call for the key
C16_WitnessFirst ==
    /\ last.op = "getLogger"
    /\ last.config = Cfg(Undef, Undef, Str("New"), Undef, Undef)
    /\ last.error = "InvalidConfig"
    /\ loggers = <<>>

---------------------------------------------------------------------------
(* Claims about isolation                                                  *)

\* The key a call getLogger(...) names: the string or number passed, the
\* default logger (written Undef) otherwise
CallId(c) ==
    IF TypeOf(c.idOrConfig) \in {"string", "number"} THEN c.idOrConfig ELSE Undef

\* The keys a program may name
CallIds == {Undef, Num(1), Str("1"), Str("default"), Str("toString")}

\* What the program finds at key k: whether getLogger(k) fails, the
\* instance it returns and that instance's configuration
Found(reg, heap, k) ==
    LET r == getLogger(reg, heap, k, Undef)
    IN  [error |-> r.error, ret |-> r.ret,
         config |-> IF r.ret > 0 THEN heap[r.ret] ELSE NewLogger]

\* C17: creating or re-configuring the logger at one key changes neither
\* the configuration nor the registry entry of the logger at any other
\* key, the default logger being an entry apart from every string or
\* number key, the string 'default' included; setConfig on a logger
\* changes no other logger and not the registry; log changes no logger's
\* configuration and not the registry.
C17_Isolation ==
    [][/\ last'.op = "getLogger"
          => \A k \in CallIds \ {CallId(last')} :
                Found(loggers', objs', k) = Found(loggers, objs, k)
       /\ last'.op = "setConfig"
          => /\ loggers' = loggers
             /\ \A i \in DOMAIN objs : i # last'.self => objs'[i] = objs[i]
       /\ last'.op \in {"log", "settle"}
          => (loggers' = loggers /\ objs' = objs)]_vars

---------------------------------------------------------------------------
(* Claims about interleaving                                               *)

\* The sequence q with its i-th element taken out
Without(q, i) == SubSeq(q, 1, i - 1) \o SubSeq(q, i + 1, Len(q))

\* C18: a log call filters, renders and invokes send in one go, with the
\* minLevel, appName, colors, formatter and send the logger has when log
\* is called, whatever sends are still outstanding; the sends start in the
\* order of the log calls that pass the filter; a setConfig or getLogger
\* made while sends are outstanding leaves them as they are, and the
\* settling of a send changes no configuration and keeps the others in
\* order.
C18_SnapshotAndOrder ==
    [][/\ (last'.op = "log" /\ ValidLogCall(last'))
          => LET lg == objs[last'.self]
             IN  /\ objs' = objs
                 /\ KnownRank(lg.minLevel)
                    => (last'.formatted = <<>> <=> CallRank(last') < lg.minLevel.n)
                 /\ last'.formatted # <<>>
                    => /\ last'.formatted[1].appName = lg.appName
                       /\ last'.formatted[1].color =
                             IF ColorEntry(lg.colors, CallRank(last')) # Undef
                             THEN ColorEntry(lg.colors, CallRank(last'))
                             ELSE Str(BuiltInColor(CallRank(last')))
                 /\ last'.sent # <<>>
                    => /\ last'.sent[1].send = lg.send
                       /\ last'.sent[1].body =
                             CallFormat(lg.format, last'.formatted[1]).body
                 /\ pending' = IF last'.sendOutcome = "pending"
                               THEN Append(pending, [self |-> last'.self, send |-> lg.send])
                               ELSE pending
       /\ last'.op \in {"setConfig", "getLogger"} => pending' = pending
       /\ last'.op = "settle"
          => /\ objs' = objs
             /\ \E i \in 1..Len(pending) : pending' = Without(pending, i)]_vars

\* A send of send1 is outstanding, the logger was given send2 and a lower
\* minLevel was raised to ERROR meanwhile, and error(...) has invoked
\* send2, which is outstanding behind it
C18_Witness ==
    /\ last.op = "log"
    /\ last.method = "error"
    /\ Len(pending) = 2
    /\ pending[1].send = Fn("send1")
    /\ pending[2].send = Fn("send2")
    /\ last.sent # <<>>
    /\ last.sent[1].send = Fn("send2")
    /\ objs[last.self].minLevel = Num(ERROR)

====
